---- MODULE Spec2Model ----
(***************************************************************************)
(* A model of the Dilithium-style signature library:                       *)
(*   dilithium/rings.py      Polynomial: arithmetic in Z_q[X]/(X^N+1)      *)
(*   dilithium/hash.py       OptimizedHasher: matrix and challenge         *)
(*                           derivation from SHAKE128 output               *)
(*   dilithium/dilithium.py  OptimizedDilithium: keygen / sign / verify    *)
(*                                                                         *)
(* A polynomial is the sequence of its N coefficients; coefficient m of    *)
(* the code (0-based) is element m + 1 of the sequence.  A byte string is  *)
(* a sequence of numbers in 0..255.  Python's None is the empty sequence,  *)
(* which no key field ever holds once keygen has set it.                   *)
(*                                                                         *)
(* The program fixes N = 256.  Every operation of the code is written for  *)
(* a generic N (range(N), % N, np.roll over N entries), and the model      *)
(* runs it at a small degree N, which is a bound of the model.  The        *)
(* modulus Q, the bounds GAMMA1, GAMMA2, BETA, the weight TAU and the      *)
(* parameter table PARAMS are the program's.                               *)
(***************************************************************************)
EXTENDS Integers, Sequences, FiniteSets, TLC

VARIABLES
    security_level, \* the level the instance was constructed with
    rho,            \* self.rho: None or the seed bytes
    t,              \* self.t:   None or a vector of k polynomials
    s1,             \* self.s1:  None or a vector of l polynomials
    s2,             \* self.s2:  None or a vector of k polynomials
    matrix_cache,   \* lru_cache of get_matrix_A for this instance: None or A
    pc,             \* "idle"; "sign" while sign's loop runs; "returned"
    call,           \* the locals of the running sign call; samples counts
                    \* its calls of generate_y_vector
    last,           \* the call that is returning: what it was given and gave
    sig,            \* the signature the caller holds: None or the last signed
    ring            \* the last ring operation, its operands and its result

vars == <<security_level, rho, t, s1, s2, matrix_cache, pc, call, last, sig, ring>>

-----------------------------------------------------------------------------
(* Constants of the program *)

\* rings.py:18 sets N = 256; the model runs the same code at this degree.
N == 4

\* rings.py:19
Q == 8380417

\* dilithium.py:14-16
GAMMA1 == Q
GAMMA2 == Q
BETA == 1

\* hash.py:18-20
DOMAIN_MATRIX == 1
DOMAIN_CHALLENGE == 2
DOMAIN_MESSAGE == 4

\* hash.py:23-24
TAU == 60
CHUNK_SIZE == 4

\* hash.py:90: hash_message reads 32 bytes
MU_BYTES == 32

\* dilithium.py:82: secrets.token_bytes(32)
SEED_BYTES == 32

\* dilithium.py:23-27
PARAMS == [lv \in {2, 3, 5} |->
             IF lv = 2 THEN [k |-> 4, l |-> 4, eta |-> 2]
             ELSE IF lv = 3 THEN [k |-> 6, l |-> 5, eta |-> 4]
             ELSE [k |-> 8, l |-> 7, eta |-> 2]]

None == << >>

-----------------------------------------------------------------------------
(* Fixed-width integers.  numpy keeps int32 products in 32 bits and wraps  *)
(* them; a 32-bit value is handled here as two 16-bit halves so that no    *)
(* intermediate value leaves the range of TLC's integers.                  *)
(* A loop of the code is a recursive operator; each pass names its result  *)
(* `next` and tests it before recursing, which makes TLC evaluate          *)
(* the pass then rather than carry it unevaluated into the next one (the   *)
(* test is always true).                                                   *)

Abs(x) == IF x < 0 THEN -x ELSE x

Min(x, y) == IF x < y THEN x ELSE y

\* the function f on 1..n as an evaluated sequence of n elements
Tuple(f, n) == SubSeq(f, 1, n)

\* (a * b) mod 2^16 for a, b in 0..65535
Mul16Low(a, b) ==
    ((a % 256) * b + (((a \div 256) * b) % 256) * 256) % 65536

\* the 32-bit product a * b of a, b in 0..65535, as <<high half, low half>>
Mul16Full(a, b) ==
    LET p0 == (a % 256) * b
        p1 == (a \div 256) * b
        s  == p0 + (p1 % 256) * 256
    IN  <<(p1 \div 256) + (s \div 65536), s % 65536>>

\* The int32 product of two int32 values, wrapped as numpy wraps it:
\* a[i] * b at rings.py:73 and self.coefficients * other at rings.py:58.
\* A product that fits in int32 is the product; any other is its low 32 bits.
Int32Mul(x, y) ==
    IF x >= 0 /\ y >= 0 /\ (x = 0 \/ y <= 2147483647 \div x) THEN x * y
    ELSE LET xh == (x \div 65536) % 65536
             xl == x % 65536
             yh == (y \div 65536) % 65536
             yl == y % 65536
             ll == Mul16Full(xl, yl)
             hi == (ll[1] + Mul16Low(xh, yl) + Mul16Low(xl, yh)) % 65536
         IN  IF hi >= 32768 THEN (hi - 65536) * 65536 + ll[2]
             ELSE hi * 65536 + ll[2]

\* x * y mod Q in unbounded integers, for x, y in [0, Q)
MulModQ(x, y) ==
    LET y2 == y \div 65536
        y1 == (y \div 256) % 256
        y0 == y % 256
        h2 == (x * y2) % Q
        h1 == (((h2 * 256) % Q) + ((x * y1) % Q)) % Q
    IN  (((h1 * 256) % Q) + ((x * y0) % Q)) % Q

-----------------------------------------------------------------------------
(* rings.py: class Polynomial *)

\* Polynomial() with no argument: np.zeros(N)
ZeroPoly == Tuple([i \in 1..N |-> 0], N)

\* np.max(np.abs(coeffs)) at rings.py:28 raises ValueError on an array of
\* size zero, which is what coefficients[:N] is for an empty input.
PolynomialRaises(coefficients) == Min(Len(coefficients), N) = 0

\* Polynomial(coefficients): truncate to N, reduce modulo Q, pad with zeros.
\* Defined for the inputs on which PolynomialRaises is false.
Polynomial(coefficients) ==
    LET coeffs == SubSeq(coefficients, 1, Min(Len(coefficients), N))
    IN  Tuple([i \in 1..N |-> IF i <= Len(coeffs) THEN coeffs[i] % Q ELSE 0], N)

\* __add__
PolyAdd(a, b) == Polynomial([i \in 1..N |-> (a[i] + b[i]) % Q])

\* __sub__
PolySub(a, b) == Polynomial([i \in 1..N |-> (a[i] - b[i]) % Q])

\* __mul__ with an integer: (self.coefficients * other) % Q, products in int32
PolyScalarMul(a, other) == Polynomial([i \in 1..N |-> Int32Mul(a[i], other) % Q])

\* One pass of the loop at rings.py:71-79, for the 0-based index i:
\*   prods  = a[i] * b                           (int32, wraps)
\*   signs  = where(i + indices >= N, -1, 1)     (int64)
\*   result = (result + signs * roll(prods, -i)) % Q
\* roll(prods, -i)[m] is prods[(m + i) % N].  The sum is formed in int64 and
\* is exact, so reducing the wrapped product modulo Q before adding leaves
\* the residue unchanged.
MulStep(a, b, result, i) ==
    Tuple([m1 \in 1..N |->
        LET m     == m1 - 1
            prod  == Int32Mul(a[i + 1], b[((m + i) % N) + 1])
            sign  == IF i + m >= N THEN -1 ELSE 1
        IN  (result[m1] + sign * (prod % Q)) % Q], N)

RECURSIVE MulLoop(_, _, _, _)
MulLoop(a, b, result, i) ==
    IF i >= N THEN result
    ELSE LET next == MulStep(a, b, result, i)
         IN  IF Len(next) = N THEN MulLoop(a, b, next, i + 1) ELSE next

\* __mul__ with a polynomial
PolyMul(a, b) == Polynomial(MulLoop(a, b, ZeroPoly, 0))

-----------------------------------------------------------------------------
(* Multiplication in Z_q[X]/(X^N+1) as mathematics defines it: a_i * b_j   *)
(* goes to position (i + j) mod N, negated when i + j >= N.                *)

RECURSIVE RingSum(_, _, _, _)
RingSum(a, b, m, i) ==
    IF i >= N THEN 0
    ELSE LET j    == (m - i) % N
             term == MulModQ(a[i + 1], b[j + 1])
             sign == IF i + j >= N THEN -1 ELSE 1
         IN  (sign * term + RingSum(a, b, m, i + 1)) % Q

RingProduct(a, b) == Tuple([m1 \in 1..N |-> RingSum(a, b, m1 - 1, 0)], N)

-----------------------------------------------------------------------------
(* hash.py: SHAKE128 and class OptimizedHasher.                            *)
(* SHAKE128 is the library's extendable-output function.  The model keeps  *)
(* what the program relies on: the output is a function of the bytes       *)
(* absorbed, in order, and of nothing else.  The sponge state is one       *)
(* number, every absorbed byte is mixed into it, and output byte i is a    *)
(* nonlinear function of the state and i.                                  *)

\* SHAKE128.new()
ShakeNew == 1

RECURSIVE ShakeUpdate(_, _)
\* shake.update(data)
ShakeUpdate(st, data) ==
    IF Len(data) = 0 THEN st
    ELSE LET next == (st * 131 + Head(data) + 1) % 15485863
         IN  IF next >= 0 THEN ShakeUpdate(next, Tail(data)) ELSE next

\* byte i (from 1) of shake.read(length)
ShakeByte(st, i) ==
    LET x1 == (((st + 7919 * i) % 15485863) * 127 + 99991) % 15485863
        x2 == ((x1 % 32768) * ((x1 \div 32768) + 3) + i) % 15485863
    IN  (x2 \div 8) % 256

\* shake.read(length)
ShakeRead(st, length) == Tuple([i \in 1..length |-> ShakeByte(st, i)], length)

\* np.array(coeffs, dtype=np.int32).tobytes(): four little-endian bytes each
Int32Bytes(c) ==
    <<c % 256, (c \div 256) % 256, (c \div 65536) % 256, (c \div 16777216) % 256>>

RECURSIVE CoeffBytes(_)
CoeffBytes(coeffs) ==
    IF Len(coeffs) = 0 THEN << >>
    ELSE Int32Bytes(Head(coeffs)) \o CoeffBytes(Tail(coeffs))

\* generate_matrix(seed, k, l), hash.py:46-84.  The four bytes of a chunk are
\* joined in int32, so a top byte of 128 or more gives a negative word, then
\* reduced with numpy's floor modulus.  _matrix_cache memoizes this function
\* by (seed, k, l) and returns what it returns.
GenerateMatrix(seed, k, l) ==
    LET st == ShakeUpdate(ShakeNew, seed \o <<DOMAIN_MATRIX>>)
        word(n) ==
            LET b0 == ShakeByte(st, CHUNK_SIZE * n + 1)
                b1 == ShakeByte(st, CHUNK_SIZE * n + 2)
                b2 == ShakeByte(st, CHUNK_SIZE * n + 3)
                b3 == ShakeByte(st, CHUNK_SIZE * n + 4)
                top == IF b3 >= 128 THEN b3 - 256 ELSE b3
            IN  top * 16777216 + b2 * 65536 + b1 * 256 + b0
    IN  Tuple([i \in 1..k |-> Tuple([j \in 1..l |->
            Polynomial([c \in 1..N |->
                word(((i - 1) * l + (j - 1)) * N + (c - 1)) % Q])], l)], k)

\* hash_message(message), hash.py:86-90
HashMessage(message) ==
    ShakeRead(ShakeUpdate(ShakeNew, <<DOMAIN_MESSAGE>> \o message), MU_BYTES)

RECURSIVE AbsorbPolys(_, _)
\* hash.py:106-108: for poly in w1: update(coeffs.tobytes())
AbsorbPolys(st, w1) ==
    IF Len(w1) = 0 THEN st
    ELSE LET next == ShakeUpdate(st, CoeffBytes(Head(w1)))
         IN  IF next >= 0 THEN AbsorbPolys(next, Tail(w1)) ELSE next

RECURSIVE ChallengeLoop(_, _, _, _)
\* hash.py:129-134: the first occurrence of each position takes its sign
ChallengeLoop(coeffs, used_positions, pos_idx, challenge_bytes) ==
    IF ~(Cardinality(used_positions) < TAU /\ pos_idx < TAU) THEN coeffs
    ELSE LET lo   == challenge_bytes[2 * pos_idx + 1]
             hi   == challenge_bytes[2 * pos_idx + 2]
             pos  == (lo + hi * 256) % N
             sign == IF lo >= 128 THEN 1 ELSE -1
         IN  IF pos \notin used_positions
             THEN ChallengeLoop([coeffs EXCEPT ![pos + 1] = sign],
                                used_positions \cup {pos}, pos_idx + 1,
                                challenge_bytes)
             ELSE ChallengeLoop(coeffs, used_positions, pos_idx + 1,
                                challenge_bytes)

\* generate_challenge(message, public_key, w1), hash.py:92-136
GenerateChallenge(message, public_key, w1) ==
    LET rho_ == public_key[1]
        mu   == HashMessage(message)
        st1  == ShakeUpdate(ShakeUpdate(ShakeNew, mu), rho_)
        st2  == ShakeUpdate(AbsorbPolys(st1, w1), <<DOMAIN_CHALLENGE>>)
        challenge_bytes == ShakeRead(st2, TAU * 2)
    IN  Polynomial(ChallengeLoop(ZeroPoly, {}, 0, challenge_bytes))

-----------------------------------------------------------------------------
(* dilithium.py: class OptimizedDilithium *)

\* secrets.token_bytes(32) followed by expand_seed is the program's random
\* source: the uint32 words read from it are arbitrary.  The model draws the
\* word stream from a small family, a first word and a step.
RandomWords(seed, n) == Tuple([i \in 1..n |-> seed[1] + seed[2] * (i - 1)], n)

\* _generate_vector, dilithium.py:45-53, on the words of the expansion
GenerateVector(words, size, bound) ==
    Tuple([p \in 1..size |->
        Polynomial([c \in 1..N |->
            (words[(p - 1) * N + c] % (2 * bound + 1)) - bound])], size)

\* get_matrix_A, dilithium.py:61-69.  lru_cache keys the call by self alone:
\* once the instance has an entry, every later call returns that entry.
GetMatrixARaises(cache, rho_) == cache = None /\ rho_ = None

GetMatrixA(cache, rho_, k, l) ==
    IF cache # None THEN cache ELSE GenerateMatrix(rho_, k, l)

RECURSIVE RowSum(_, _, _)
\* dilithium.py:74-76: sum_poly = sum_poly + (a * v) over zip(row, vector)
RowSum(row, vector, sum_poly) ==
    IF Len(row) = 0 \/ Len(vector) = 0 THEN sum_poly
    ELSE LET next == PolyAdd(sum_poly, PolyMul(Head(row), Head(vector)))
         IN  IF Len(next) = N THEN RowSum(Tail(row), Tail(vector), next)
             ELSE next

\* _matrix_multiply, dilithium.py:71-78
MatrixMultiply(matrix, vector) ==
    Tuple([i \in 1..Len(matrix) |-> RowSum(matrix[i], vector, ZeroPoly)],
          Len(matrix))

\* Keygen that adds s2 into t and does not store it
Keygen_DropsS2(cache, seed, words1, words2, k, l, eta) ==
    LET A   == GetMatrixA(cache, seed, k, l)
        ns1 == GenerateVector(words1, l, eta)
        ns2 == GenerateVector(words2, k, eta)
        As1 == MatrixMultiply(A, ns1)
    IN  [rho |-> seed, s1 |-> ns1, s2 |-> None,
         t |-> Tuple([i \in 1..k |-> PolyAdd(As1[i], ns2[i])], k),
         cache |-> A]

\* keygen, dilithium.py:80-92: the fields after the call, and the cache
Keygen(cache, seed, words1, words2, k, l, eta) ==
    LET A   == GetMatrixA(cache, seed, k, l)
        ns1 == GenerateVector(words1, l, eta)
        ns2 == GenerateVector(words2, k, eta)
        As1 == MatrixMultiply(A, ns1)
    IN  [rho |-> seed, s1 |-> ns1, s2 |-> ns2,
         t |-> Tuple([i \in 1..k |-> PolyAdd(As1[i], ns2[i])], k),
         cache |-> A]

\* all([self.rho, self.t, self.s1, self.s2]), dilithium.py:95
\* None, empty bytes and an empty list are the falsy values.
KeysGenerated(rho_, t_, s1_, s2_) ==
    rho_ # None /\ t_ # None /\ s1_ # None /\ s2_ # None

\* LoopContinues with the comparison off by one
LoopContinues_OffByOne(attempts, max_attempts) == attempts <= max_attempts

\* while attempts < max_attempts, dilithium.py:102
LoopContinues(attempts, max_attempts) == attempts < max_attempts

\* np.abs of the concatenated coefficients of a vector, as a set
AbsCoeffs(vector) ==
    {Abs(vector[p][c]) : p \in 1..Len(vector), c \in 1..N}

\* np.any(np.abs(w_coeffs) > GAMMA2), dilithium.py:115
SignWTooLarge(w) == \E x \in AbsCoeffs(w) : x > GAMMA2

\* np.any(np.abs(z_coeffs) >= GAMMA1 - BETA), dilithium.py:131 and :145
ZTooLarge(z) == \E x \in AbsCoeffs(z) : x >= GAMMA1 - BETA

\* One pass of sign's loop, dilithium.py:107-135, given the words y is made of
SignAttempt(A, message, rho_, t_, s1_, l, words) ==
    LET y == GenerateVector(words, l, GAMMA1)
        w == MatrixMultiply(A, y)
        c == GenerateChallenge(message, <<rho_, t_>>, w)
        z == Tuple([i \in 1..l |-> PolyAdd(y[i], PolyMul(c, s1_[i]))], l)
    IN  IF SignWTooLarge(w) THEN [accepted |-> FALSE, z |-> None, c |-> None, w |-> w]
        ELSE IF ZTooLarge(z) THEN [accepted |-> FALSE, z |-> z, c |-> c, w |-> w]
        ELSE [accepted |-> TRUE, z |-> z, c |-> c, w |-> w]

\* WProcessed with a rounding step sign does not have: the high bits of w
WProcessed_Rounded(w_raw) ==
    Tuple([p \in 1..Len(w_raw) |->
             Polynomial([c \in 1..N |-> (Abs(w_raw[p][c]) % Q) \div 2])], Len(w_raw))

\* dilithium.py:150-154: coeffs = np.abs(coeffs) % Q, then Polynomial(...)
WProcessed(w_raw) ==
    Tuple([p \in 1..Len(w_raw) |->
             Polynomial([c \in 1..N |-> Abs(w_raw[p][c]) % Q])], Len(w_raw))

\* np.any(np.abs(w_coeffs) >= GAMMA2), dilithium.py:158
VerifyWTooLarge(w) == \E x \in AbsCoeffs(w) : x >= GAMMA2

\* Verify that never compares the recomputed challenge with c
Verify_NoChallengeCheck(message, signature, public_key) ==
    LET z     == signature[1]
        w_processed == WProcessed(signature[3])
    IN  IF Len(z) = 0 THEN [outcome |-> "ValueError", result |-> FALSE]
        ELSE IF ZTooLarge(z) THEN [outcome |-> "return", result |-> FALSE]
        ELSE IF Len(w_processed) = 0 THEN [outcome |-> "ValueError", result |-> FALSE]
        ELSE IF VerifyWTooLarge(w_processed) THEN [outcome |-> "return", result |-> FALSE]
        ELSE [outcome |-> "return", result |-> TRUE]

\* Verify whose z bound is > where the code has >=
Verify_ZBoundOffByOne(message, signature, public_key) ==
    LET z     == signature[1]
        c     == signature[2]
        w_processed == WProcessed(signature[3])
    IN  IF Len(z) = 0 THEN [outcome |-> "ValueError", result |-> FALSE]
        ELSE IF \E x \in AbsCoeffs(z) : x > GAMMA1 - BETA THEN [outcome |-> "return", result |-> FALSE]
        ELSE IF Len(w_processed) = 0 THEN [outcome |-> "ValueError", result |-> FALSE]
        ELSE IF VerifyWTooLarge(w_processed) THEN [outcome |-> "return", result |-> FALSE]
        ELSE IF c # GenerateChallenge(message, public_key, w_processed)
             THEN [outcome |-> "return", result |-> FALSE]
        ELSE [outcome |-> "return", result |-> TRUE]

\* verify, dilithium.py:139-169.  np.concatenate of an empty list raises
\* ValueError, at :144 for an empty z and at :157 for an empty w.
Verify(message, signature, public_key) ==
    LET z     == signature[1]
        c     == signature[2]
        w_raw == signature[3]
        w_processed == WProcessed(w_raw)
    IN  IF Len(z) = 0 THEN [outcome |-> "ValueError", result |-> FALSE]
        ELSE IF ZTooLarge(z) THEN [outcome |-> "return", result |-> FALSE]
        ELSE IF Len(w_processed) = 0 THEN [outcome |-> "ValueError", result |-> FALSE]
        ELSE IF VerifyWTooLarge(w_processed) THEN [outcome |-> "return", result |-> FALSE]
        ELSE IF c # GenerateChallenge(message, public_key, w_processed)
             THEN [outcome |-> "return", result |-> FALSE]
        ELSE [outcome |-> "return", result |-> TRUE]

-----------------------------------------------------------------------------
(* The inputs the model draws from *)

\* the largest max_attempts a sign call is given
MaxAttempts == 2

\* secrets.token_bytes(32) for rho
Rhos == {Tuple([i \in 1..SEED_BYTES |-> 7], SEED_BYTES),
         Tuple([i \in 1..SEED_BYTES |-> i], SEED_BYTES)}

\* The random sources (first word, step) of s1 and of s2.  Words that are
\* all 2 give the coefficient 2 - eta everywhere (0 at eta = 2); the words
\* 0, 1, 2, ... give -eta, 1 - eta, ... in turn.
SmallSeeds == {<< <<2, 0>>, <<0, 1>> >>, << <<0, 1>>, <<3, 0>> >>}

\* The random sources of y: y = 0; every coefficient -1, stored as Q - 1;
\* and the coefficients 3, 4, 5, ...
YSeeds == {<<Q, 0>>, <<Q - 1, 0>>, <<Q + 3, 1>>}

\* b"Hi" and b"Ho"
Messages == {<<72, 105>>, <<72, 111>>}

OtherMessage(m) == CHOOSE x \in Messages : x # m

OtherRho(r) == CHOOSE x \in Rhos : x # r

K == PARAMS[security_level].k
L == PARAMS[security_level].l
ETA == PARAMS[security_level].eta

ZeroVector(n) == Tuple([i \in 1..n |-> ZeroPoly], n)

-----------------------------------------------------------------------------
(* The instance and its calls.  A call runs from "idle" to "returned",     *)
(* where `last` holds what it was given and what it gave; Return hands     *)
(* that to the caller.  The caller keeps the signature of its last sign    *)
(* call until it calls keygen or sign again.                               *)

NoCall == [message |-> << >>, max_attempts |-> 0, attempts |-> 0, samples |-> 0,
           A |-> None]

NoLast == [op |-> "none", src |-> "none", outcome |-> "none", result |-> FALSE,
           message |-> << >>, max_attempts |-> 0, attempts |-> 0,
           z |-> None, c |-> None, w |-> None, pk |-> None]

NoRing == [op |-> "none", a |-> << >>, b |-> << >>, scalar |-> 0,
           raised |-> FALSE, out |-> << >>]

\* __init__, dilithium.py:31-43
Init ==
    /\ security_level \in DOMAIN PARAMS
    /\ rho = None /\ t = None /\ s1 = None /\ s2 = None
    /\ matrix_cache = None
    /\ pc = "idle"
    /\ call = NoCall
    /\ last = NoLast
    /\ sig = None
    /\ ring = NoRing

\* keygen(), dilithium.py:80-92.  The pair returned is (self.rho, self.t),
\* (self.s1, self.s2): the fields themselves.
KeygenCall ==
    /\ pc = "idle"
    /\ \E seed \in Rhos, small \in SmallSeeds :
         LET r == Keygen(matrix_cache, seed, RandomWords(small[1], L * N),
                         RandomWords(small[2], K * N), K, L, ETA)
         IN  /\ rho' = r.rho /\ t' = r.t /\ s1' = r.s1 /\ s2' = r.s2
             /\ matrix_cache' = r.cache
             /\ last' = [NoLast EXCEPT !.op = "keygen", !.outcome = "return",
                                       !.pk = <<r.rho, r.t>>]
    /\ pc' = "returned"
    /\ sig' = None
    /\ UNCHANGED <<security_level, call, ring>>

\* sign(message, max_attempts) up to the loop, dilithium.py:94-101
SignCall ==
    /\ pc = "idle"
    /\ \E message \in Messages, max_attempts \in 0..MaxAttempts :
         IF ~KeysGenerated(rho, t, s1, s2)
         THEN /\ last' = [NoLast EXCEPT !.op = "sign", !.outcome = "ValueError",
                                        !.message = message,
                                        !.max_attempts = max_attempts]
              /\ pc' = "returned"
              /\ UNCHANGED <<call, matrix_cache>>
         ELSE /\ ~GetMatrixARaises(matrix_cache, rho)
              /\ matrix_cache' = GetMatrixA(matrix_cache, rho, K, L)
              /\ pc' = "sign"
              /\ call' = [message |-> message, max_attempts |-> max_attempts,
                          attempts |-> 0, samples |-> 0, A |-> matrix_cache']
              /\ last' = [NoLast EXCEPT !.op = "sign", !.outcome = "running",
                                        !.message = message,
                                        !.max_attempts = max_attempts]
    /\ sig' = None
    /\ UNCHANGED <<security_level, rho, t, s1, s2, ring>>

\* one pass of the loop, dilithium.py:102-135
SignLoop ==
    /\ pc = "sign"
    /\ LoopContinues(call.attempts, call.max_attempts)
    /\ \E seed \in YSeeds :
         LET r == SignAttempt(call.A, call.message, rho, t, s1, L,
                              RandomWords(seed, L * N))
         IN  IF r.accepted
             THEN /\ pc' = "returned"
                  /\ call' = NoCall
                  /\ last' = [last EXCEPT !.outcome = "return", !.src = "sign",
                                          !.attempts = call.attempts + 1,
                                          !.z = r.z, !.c = r.c, !.w = r.w,
                                          !.pk = <<rho, t>>]
             ELSE /\ call' = [call EXCEPT !.attempts = @ + 1, !.samples = @ + 1]
                  /\ UNCHANGED <<pc, last>>
    /\ UNCHANGED <<security_level, rho, t, s1, s2, matrix_cache, sig, ring>>

\* an exhausted sign that also throws the key pair away
SignExhausted_ResetsKeys ==
    /\ pc = "sign"
    /\ ~LoopContinues(call.attempts, call.max_attempts)
    /\ pc' = "returned"
    /\ call' = NoCall
    /\ last' = [last EXCEPT !.outcome = "RuntimeError", !.attempts = call.attempts]
    /\ rho' = None /\ t' = None /\ s1' = None /\ s2' = None
    /\ UNCHANGED <<security_level, matrix_cache, sig, ring>>

\* the loop ends without a signature, dilithium.py:137
SignExhausted ==
    /\ pc = "sign"
    /\ ~LoopContinues(call.attempts, call.max_attempts)
    /\ pc' = "returned"
    /\ call' = NoCall
    /\ last' = [last EXCEPT !.outcome = "RuntimeError", !.attempts = call.attempts]
    /\ UNCHANGED <<security_level, rho, t, s1, s2, matrix_cache, sig, ring>>

\* What a caller holding a signature passes to verify: the signature with
\* the public key keygen returned, and the changes of
\* examples/basic_usage.py:65-103 and of the spec's negative cases.
Tampers == {"signed", "message", "rho", "t", "w", "c", "z_edge", "z_other",
            "z_empty", "w_empty"}

Tampered(kind) ==
    [src |-> kind,
     message |-> IF kind = "message" THEN OtherMessage(sig.message)
                 ELSE sig.message,
     z |-> IF kind = "z_edge"
             THEN [sig.z EXCEPT ![1] = [sig.z[1] EXCEPT ![1] = Q - 1]]
           ELSE IF kind = "z_other"
             THEN Tuple([i \in 1..Len(sig.z) |->
                           PolyAdd(sig.z[i], Polynomial(<<0, 1>>))], Len(sig.z))
           ELSE IF kind = "z_empty" THEN << >>
           ELSE sig.z,
     c |-> IF kind = "c"
             THEN Polynomial([i \in 1..N |-> (sig.c[i] + 1) % Q])
           ELSE sig.c,
     w |-> IF kind = "w"
             THEN Tuple([i \in 1..Len(sig.w) |->
                           Polynomial([j \in 1..N |-> sig.w[i][j] + 123])],
                        Len(sig.w))
           ELSE IF kind = "w_empty" THEN << >>
           ELSE sig.w,
     pk |-> IF kind = "rho" THEN <<OtherRho(rho), t>>
            ELSE IF kind = "t" THEN <<rho, ZeroVector(K)>>
            ELSE <<rho, t>>]

\* Triples made without the signer: fixed polynomials with an arbitrary c
\* (basic_usage.py:105-111), and a triple whose c is the challenge anyone
\* can compute from the message, rho and a chosen w.
Independent(kind, message, r) ==
    LET pk == <<r, ZeroVector(K)>>
        z  == Tuple([i \in 1..L |-> Polynomial(<<i, 2 * i, 5>>)], L)
        w  == Tuple([i \in 1..K |-> Polynomial(<<7 * i, 11>>)], K)
    IN  [src |-> kind, message |-> message, z |-> z, w |-> w, pk |-> pk,
         c |-> IF kind = "forged" THEN GenerateChallenge(message, pk, WProcessed(w))
               ELSE Polynomial(<<4711, 0, Q - 1>>)]

VerifyInputs ==
    (IF sig # None THEN {Tampered(kind) : kind \in Tampers} ELSE {})
    \cup {Independent(kind, m, r) :
            kind \in {"random", "forged"}, m \in Messages, r \in Rhos}

\* verify(message, signature, public_key), dilithium.py:139-169
VerifyCall ==
    /\ pc = "idle"
    /\ \E inp \in VerifyInputs :
         LET r == Verify(inp.message, <<inp.z, inp.c, inp.w>>, inp.pk)
         IN  last' = [NoLast EXCEPT !.op = "verify", !.src = inp.src,
                                    !.outcome = r.outcome, !.result = r.result,
                                    !.message = inp.message, !.z = inp.z,
                                    !.c = inp.c, !.w = inp.w, !.pk = inp.pk]
    /\ pc' = "returned"
    /\ UNCHANGED <<security_level, rho, t, s1, s2, matrix_cache, call, sig, ring>>

\* the call returns to its caller, who keeps a signature it was given
Return ==
    /\ pc = "returned"
    /\ pc' = "idle"
    /\ last' = NoLast
    /\ sig' = IF last.op = "sign" /\ last.outcome = "return"
              THEN [message |-> last.message, z |-> last.z, c |-> last.c,
                    w |-> last.w]
              ELSE sig
    /\ UNCHANGED <<security_level, rho, t, s1, s2, matrix_cache, call, ring>>

Next ==
    KeygenCall \/ SignCall \/ SignLoop \/ SignExhausted \/ VerifyCall \/ Return

Spec == Init /\ [][Next]_vars

-----------------------------------------------------------------------------
(* The ring on its own: Polynomial applied to bounded inputs *)

\* coefficients given to the constructor: negative, small, and above Q
CoeffInputs == {-8380420, 3, 8380419}

\* input sequences shorter than N, of length N and longer than N
ConstructInputs == UNION {[1..n -> CoeffInputs] : n \in 0..(N + 1)}

\* operands of the ring operations, each a constructed polynomial
Operands ==
    {Polynomial(s) : s \in {<<0>>, <<1>>, <<1, 2>>, <<3, 4>>, <<0, 1>>,
                            <<5, 0, 7>>, <<Q - 1>>, <<Q - 1, Q - 2, Q - 3>>}}
    \cup {Tuple([i \in 1..N |-> Q - i], N)}

\* integers a polynomial is scaled by
Scalars == {-3, 0, 1, 2, 1000, Q - 1}

InitRing ==
    /\ security_level = 2
    /\ rho = None /\ t = None /\ s1 = None /\ s2 = None
    /\ matrix_cache = None
    /\ pc = "idle"
    /\ call = NoCall
    /\ last = NoLast
    /\ sig = None
    /\ ring = NoRing

RingFrame ==
    UNCHANGED <<security_level, rho, t, s1, s2, matrix_cache, pc, call, last, sig>>

\* Polynomial(coefficients), rings.py:21-35
ConstructOp ==
    /\ \E s \in ConstructInputs :
         ring' = [NoRing EXCEPT !.op = "construct", !.a = s,
                                !.raised = PolynomialRaises(s),
                                !.out = IF PolynomialRaises(s) THEN << >>
                                        ELSE Polynomial(s)]
    /\ RingFrame

\* a + b, rings.py:37-39
AddOp ==
    /\ \E a \in Operands, b \in Operands :
         ring' = [NoRing EXCEPT !.op = "add", !.a = a, !.b = b,
                                !.out = PolyAdd(a, b)]
    /\ RingFrame

\* a - b, rings.py:41-43
SubOp ==
    /\ \E a \in Operands, b \in Operands :
         ring' = [NoRing EXCEPT !.op = "sub", !.a = a, !.b = b,
                                !.out = PolySub(a, b)]
    /\ RingFrame

\* a * k for an integer k, rings.py:56-58
ScalarMulOp ==
    /\ \E a \in Operands, k \in Scalars :
         ring' = [NoRing EXCEPT !.op = "scalar_mul", !.a = a, !.scalar = k,
                                !.out = PolyScalarMul(a, k)]
    /\ RingFrame

\* a * b, rings.py:60-81
MulOp ==
    /\ \E a \in Operands, b \in Operands :
         ring' = [NoRing EXCEPT !.op = "mul", !.a = a, !.b = b,
                                !.out = PolyMul(a, b)]
    /\ RingFrame

NextRing == ConstructOp \/ AddOp \/ SubOp \/ ScalarMulOp \/ MulOp

SpecRing == InitRing /\ [][NextRing]_vars

-----------------------------------------------------------------------------
(* The claims *)

Returned(op) == pc = "returned" /\ last.op = op

Uninitialized == rho = None /\ t = None /\ s1 = None /\ s2 = None

Keyed == rho # None /\ t # None /\ s1 # None /\ s2 # None

\* every coefficient of every polynomial of the vector is, in absolute
\* value, below the bound
AllBelow(vector, bound) ==
    \A p \in 1..Len(vector) : \A c \in 1..N : Abs(vector[p][c]) < bound

\* C1: a signature returned by sign, verified with the message that was
\* signed and the public key keygen returned for the signing key pair, is
\* accepted, at every security level.
C1_RoundTrip ==
    (Returned("verify") /\ last.src = "signed")
        => (last.outcome = "return" /\ last.result = TRUE)

\* a signature with a nonzero response was verified at level 5
C1_Witness ==
    /\ Returned("verify") /\ last.src = "signed"
    /\ security_level = 5
    /\ last.z # ZeroVector(L)
    /\ last.result = TRUE

\* C2: after every keygen call, t = A.s1 + s2 with A = derive_matrix(rho, k, l)
\* for the rho of that call, and the memoized matrix is that A.
C2_KeyRelation ==
    Returned("keygen") =>
        LET A   == GenerateMatrix(rho, K, L)
            As1 == MatrixMultiply(A, s1)
        IN  /\ last.pk = <<rho, t>>
            /\ t = Tuple([i \in 1..K |-> PolyAdd(As1[i], s2[i])], K)
            /\ matrix_cache = A

\* C3 as stated: a triple (z, c, w) made without the signer is rejected.
C3_IndependentRejected ==
    (Returned("verify") /\ last.src \in {"random", "forged"})
        => (last.outcome = "return" /\ last.result = FALSE)

\* C3 as amended: a triple made without the signer is rejected whenever its
\* c differs from the challenge recomputed from the message, rho and the
\* processed w, or a coefficient of z is outside the bound; it is accepted
\* otherwise.
C3_IndependentRejectedUnlessChallenge ==
    (Returned("verify") /\ last.src \in {"random", "forged"})
        => /\ last.outcome = "return"
           /\ (last.c # GenerateChallenge(last.message, last.pk, WProcessed(last.w))
                 \/ ~AllBelow(last.z, GAMMA1 - BETA))
              => last.result = FALSE
           /\ (last.c = GenerateChallenge(last.message, last.pk, WProcessed(last.w))
                 /\ AllBelow(last.z, GAMMA1 - BETA))
              => last.result = TRUE

\* a triple with an arbitrary c was rejected
C3_Witness ==
    /\ Returned("verify") /\ last.src = "random"
    /\ last.outcome = "return" /\ last.result = FALSE

\* C4: on a signature whose z and w hold polynomials, verify returns true
\* exactly when every |z coefficient| < gamma1 - beta, every
\* |w_processed coefficient| < gamma2 and the challenge recomputed from the
\* message, rho and w_processed equals c; t and the choice of z among the
\* vectors within the bound do not change the result.
C4_VerifyAccepts ==
    (Returned("verify") /\ Len(last.z) > 0 /\ Len(last.w) > 0) =>
        LET w_processed ==
                Tuple([p \in 1..Len(last.w) |->
                         Tuple([c \in 1..N |-> Abs(last.w[p][c]) % Q], N)],
                      Len(last.w))
            accepts ==
                /\ AllBelow(last.z, GAMMA1 - BETA)
                /\ AllBelow(w_processed, GAMMA2)
                /\ GenerateChallenge(last.message, <<last.pk[1], << >> >>,
                                     w_processed) = last.c
            other == Verify(last.message,
                            <<ZeroVector(1), last.c, last.w>>,
                            <<last.pk[1], ZeroVector(1)>>)
        IN  /\ last.outcome = "return"
            /\ last.result = accepts
            /\ AllBelow(last.z, GAMMA1 - BETA) => other.result = last.result

\* an accepted signature was verified again with another message and rejected
C4_Witness ==
    /\ Returned("verify") /\ last.src = "message"
    /\ last.outcome = "return" /\ last.result = FALSE
    /\ Verify(sig.message, <<sig.z, sig.c, sig.w>>, <<rho, t>>).result = TRUE

\* C5: verify never raises, whatever the lengths of z and w and whether or
\* not keygen has run; each rejection returns false.
C5_VerifyNeverRaises ==
    Returned("verify") =>
        /\ last.outcome = "return"
        /\ last.result \in BOOLEAN
        /\ ~AllBelow(last.z, GAMMA1 - BETA) => last.result = FALSE

\* C6 as stated: at most max_attempts attempts, one fresh y each; a
\* signature comes only from an attempt that passed both bound checks; when
\* every attempt is discarded the call ends with the signing failure; and
\* sign with max_attempts = 0 always ends with the signing failure.
C6_SignAttempts ==
    /\ pc = "sign" => (call.attempts <= call.max_attempts
                         /\ call.samples = call.attempts)
    /\ Returned("sign") =>
         /\ last.attempts <= last.max_attempts
         /\ last.outcome = "return" =>
              (last.attempts >= 1 /\ AllBelow(last.z, GAMMA1 - BETA)
                 /\ \A p \in 1..Len(last.w) : \A c \in 1..N :
                       Abs(last.w[p][c]) <= GAMMA2)
         /\ last.outcome = "RuntimeError" => last.attempts = last.max_attempts
         /\ last.max_attempts = 0 => last.outcome = "RuntimeError"

\* C6 as amended: the same, with the last part for an instance that has
\* keys: there sign ends with a signature or with the signing failure, and
\* with max_attempts = 0 always with the signing failure.
C6_SignAttemptsKeyed ==
    /\ pc = "sign" => (call.attempts <= call.max_attempts
                         /\ call.samples = call.attempts)
    /\ Returned("sign") =>
         /\ last.attempts <= last.max_attempts
         /\ last.outcome = "return" =>
              (last.attempts >= 1 /\ AllBelow(last.z, GAMMA1 - BETA)
                 /\ \A p \in 1..Len(last.w) : \A c \in 1..N :
                       Abs(last.w[p][c]) <= GAMMA2)
         /\ last.outcome = "RuntimeError" => last.attempts = last.max_attempts
         /\ Keyed => last.outcome \in {"return", "RuntimeError"}
         /\ (Keyed /\ last.max_attempts = 0) => last.outcome = "RuntimeError"

\* every attempt of a sign call with max_attempts > 0 was discarded
C6_Witness ==
    /\ Returned("sign") /\ last.outcome = "RuntimeError"
    /\ last.max_attempts = MaxAttempts /\ last.attempts = MaxAttempts
    /\ MaxAttempts > 0

\* C7: the instance is uninitialized or keyed.  sign on an uninitialized
\* instance fails with the invalid-state error whatever its arguments, makes
\* no attempt, returns no signature and leaves the instance uninitialized;
\* keygen leaves the instance keyed; a keyed instance stays keyed, and sign
\* on it never fails with the invalid-state error.
C7_StateMachine ==
    /\ [](/\ Uninitialized \/ Keyed
          /\ Keyed <=> KeysGenerated(rho, t, s1, s2)
          /\ (Returned("sign") /\ Uninitialized) =>
               (last.outcome = "ValueError" /\ last.attempts = 0
                  /\ last.z = None /\ last.c = None /\ last.w = None)
          /\ Returned("keygen") => Keyed
          /\ (Returned("sign") /\ Keyed) => last.outcome # "ValueError"
          /\ pc = "sign" => Keyed)
    /\ [][/\ Keyed => Keyed'
          /\ (Uninitialized /\ SignCall) => (Uninitialized' /\ pc' = "returned")]_vars

\* sign with max_attempts > 0 failed on an instance without keys
C7_Witness ==
    /\ Returned("sign") /\ Uninitialized
    /\ last.outcome = "ValueError" /\ last.max_attempts > 0

\* C11: only keygen changes rho, t, s1, s2.  Every step of a sign call
\* (one that returns a signature, one that exhausts max_attempts, one that
\* fails for missing keys) and every verify call, whatever message, signature
\* and public key it is given, leaves the four fields as they were; a keygen
\* step sets all four at once, to the seed and vectors it has just drawn and
\* the t computed from them, which are the pair it returns.  Between calls
\* the instance holds no call state, and its matrix cache, the only other
\* thing a call may write, is the matrix of a seed: nothing of a message,
\* signature or challenge.
KeygenStep == pc = "idle" /\ last'.op = "keygen"

C11_OnlyKeygenWritesKeys ==
    /\ [][/\ ~KeygenStep => UNCHANGED <<security_level, rho, t, s1, s2>>
          /\ KeygenStep =>
                /\ KeysGenerated(rho', t', s1', s2')
                /\ rho' \in Rhos
                /\ \E small \in SmallSeeds :
                     /\ s1' = GenerateVector(RandomWords(small[1], L * N), L, ETA)
                     /\ s2' = GenerateVector(RandomWords(small[2], K * N), K, ETA)
                /\ Len(t') = K
                /\ last'.pk = <<rho', t'>>
          /\ (pc = "idle" /\ last'.op \in {"sign", "verify"}) =>
                matrix_cache' \in {matrix_cache, GenerateMatrix(rho, K, L)}
          /\ pc # "idle" => matrix_cache' = matrix_cache]_vars
    /\ [](/\ pc = "idle" => (call = NoCall /\ last = NoLast)
          /\ matrix_cache # None =>
                \E r \in Rhos : matrix_cache = GenerateMatrix(r, K, L))

\* a verify call given a public key that is not the instance's, and a sign
\* call that produced a signature, both returned on an instance whose four
\* fields are still the ones keygen set
C11_Witness ==
    /\ Keyed
    /\ \/ Returned("verify") /\ last.pk[1] # rho /\ last.result = FALSE
       \/ Returned("sign") /\ last.outcome = "return" /\ last.pk = <<rho, t>>

\* a product of two coefficients that an int32 holds without wrapping
FitsInt32(x, y) == x = 0 \/ y <= 2147483647 \div x

\* the scalar product and the loop of rings.py:71-79 with every product
\* taken in unbounded integers and then reduced modulo Q
ExactScalarMul(a, k) == Tuple([i \in 1..N |-> MulModQ(a[i], k)], N)

ExactMulStep(a, b, result, i) ==
    Tuple([m1 \in 1..N |->
        LET m     == m1 - 1
            prod  == MulModQ(a[i + 1], b[((m + i) % N) + 1])
            sign  == IF i + m >= N THEN -1 ELSE 1
        IN  (result[m1] + sign * prod) % Q], N)

RECURSIVE ExactMulLoop(_, _, _, _)
ExactMulLoop(a, b, result, i) ==
    IF i >= N THEN result
    ELSE LET next == ExactMulStep(a, b, result, i)
         IN  IF Len(next) = N THEN ExactMulLoop(a, b, next, i + 1) ELSE next

ExactMul(a, b) == ExactMulLoop(a, b, ZeroPoly, 0)

\* C12: mul and scalar_mul do not overflow the 32-bit signed integers that
\* hold coefficients.  For operands with coefficients in [0, Q) and a scalar
\* in [0, Q), every product a_i * b_j and a_i * k is representable in int32,
\* and the coefficients returned are those of the same computation carried
\* out in unbounded integers and reduced modulo Q.
C12_NoOverflow ==
    /\ (ring.op = "scalar_mul" /\ ring.scalar \in 0..(Q - 1)) =>
          /\ \A i \in 1..N : FitsInt32(ring.a[i], ring.scalar)
          /\ ring.out = ExactScalarMul(ring.a, ring.scalar)
    /\ ring.op = "mul" =>
          /\ \A i \in 1..N, j \in 1..N : FitsInt32(ring.a[i], ring.b[j])
          /\ ring.out = ExactMul(ring.a, ring.b)

\* C8: mul(a, b) is the product in Z_q[X]/(X^N+1): a_i * b_j goes to
\* position (i + j) mod N, negated when i + j >= N, reduced modulo Q.
C8_MulIsRingProduct ==
    ring.op = "mul" => ring.out = RingProduct(ring.a, ring.b)

\* C9: mul(a, b) equals mul(b, a) coefficient by coefficient.
C9_MulCommutes ==
    ring.op = "mul" => ring.out = PolyMul(ring.b, ring.a)

\* C10: construct never fails and yields N coefficients, the first
\* min(length, N) the inputs reduced into [0, Q) and the rest 0; add, sub,
\* scalar_mul and mul return N coefficients, each in [0, Q).
C10_PolynomialInvariant ==
    /\ ring.op = "construct" =>
         /\ ~ring.raised
         /\ Len(ring.out) = N
         /\ \A i \in 1..N :
              /\ ring.out[i] \in 0..(Q - 1)
              /\ i <= Len(ring.a) => (ring.out[i] - ring.a[i]) % Q = 0
              /\ i > Len(ring.a) => ring.out[i] = 0
    /\ ring.op \in {"add", "sub", "scalar_mul", "mul"} =>
         /\ Len(ring.out) = N
         /\ \A i \in 1..N : ring.out[i] \in 0..(Q - 1)

====
